---- MODULE Spec2Model ----
(***************************************************************************)
(* vad_placefile: the NEXRAD Level-3 VWP (product 48) decoder of           *)
(* vad_file.rs and the wind-vector mathematics of vad_params.rs.           *)
(*                                                                         *)
(* The byte stream is a sequence of bytes 0..255.  VadFile::from_reader is *)
(* followed function by function (pc): read_headers, read_desc_block,      *)
(* read_symbology (called inline by read_desc_block), read_tabular and     *)
(* get_data.  Once a VadFile has been returned, mean_wind, wind_shear and  *)
(* bunkers are called on its profile.                                      *)
(*                                                                         *)
(* f32 values are exact rationals <<n, d>> (d > 0, lowest terms); every    *)
(* non-finite float (NaN, +inf, -inf) is the one value NaN == <<0, 0>>.    *)
(* The only inexact operation of the decoder, the square root of the       *)
(* altitude formula, rounds down to the quantum Quantum.                   *)
(***************************************************************************)
EXTENDS Integers, Sequences, FiniteSets, TLC

VARIABLES
    src,          \* description of the product the stream was encoded from
    stream,       \* the bytes the reader can deliver
    pos,          \* bytes consumed from the reader so far
    pc,           \* position of from_reader
    visited,      \* the functions from_reader has entered so far
    outcome,      \* "Running", "Ok", "Err" (returned) or "Panic" (unwound)
    err,          \* the error of an "Err" outcome
    time,         \* read_desc_block: <<scan_date, scan_time>> after 1969-12-31
    location,     \* read_desc_block: (lat, lon)
    has_tabular,  \* read_desc_block: offset_tabular > 0
    messages,     \* read_tabular: pages of lines of bytes
    data,         \* get_data: the profile (VadProfile.prof)
    shortRead,    \* a read returned fewer bytes than asked for and did not fail
    hitEnd,       \* a read asked for more bytes than the stream had left
    tabStart,     \* pos at which read_tabular was entered (-1: not entered)
    call,         \* the last call of the profile mathematics and its result
    client        \* VadClient::create_placefile: its position, clock and files

vars == <<src, stream, pos, pc, visited, outcome, err, time, location,
          has_tabular, messages, data, shortRead, hitEnd, tabStart, call,
          client>>

(***************************************************************************)
(* Bounds of the model.                                                    *)
(***************************************************************************)
\* data lines on the first "VAD Algorithm Output" page
MaxLines == 2
\* a stream is cut at a block boundary or up to MaxCutBack bytes before it
MaxCutBack == 1
\* files in ./cache/ when create_placefile lists it
MaxFiles == 2
\* seconds the clock may advance between two readings of Utc::now()
MaxTick == 1

(***************************************************************************)
(* Sequences of bytes.                                                     *)
(***************************************************************************)
Zeros(n) == [i \in 1..n |-> 0]

RECURSIVE Sum(_)
Sum(s) == IF s = <<>> THEN 0 ELSE Head(s) + Sum(Tail(s))

RECURSIVE Concat(_)
Concat(ss) == IF ss = <<>> THEN <<>> ELSE Head(ss) \o Concat(Tail(ss))

Min(a, b) == IF a < b THEN a ELSE b
Max(a, b) == IF a > b THEN a ELSE b

\* big-endian two's complement encodings, used to build the input streams
U16Bytes(u) == <<u \div 256, u % 256>>
I16Bytes(v) == U16Bytes(IF v < 0 THEN v + 65536 ELSE v)
I32Bytes(v) == I16Bytes(v \div 65536) \o U16Bytes(v % 65536)

\* <$ty>::from_be_bytes for i16 and i32
FromBeI16(b) ==
    LET u == b[1] * 256 + b[2]
    IN  IF u >= 32768 THEN u - 65536 ELSE u
FromBeI32(b) == FromBeI16(<<b[1], b[2]>>) * 65536 + b[3] * 256 + b[4]

Bytes(s, p, n) == SubSeq(s, p + 1, p + n)

(***************************************************************************)
(* The read!/read_string! macros use read_exact: all n bytes or an error.  *)
(***************************************************************************)
CanRead(s, p, n) == p + n <= Len(s)

\* read!(reader, i16) and read!(reader, i32) at byte offset p (both need CanRead)
ReadI16(s, p) == FromBeI16(Bytes(s, p, 2))
ReadI32(s, p) == FromBeI32(Bytes(s, p, 4))

\* An "as usize" value too large to allocate: vec![0u8; n] panics with capacity
\* overflow.  A negative i16 or i32 cast to usize is at least 2^63.
AllocPanics(n) == n < 0

(***************************************************************************)
(* Field layouts, in bytes, in the order the code reads them.              *)
(***************************************************************************)
\* read_headers: wmo header, date, code, time, length, source, dest, blocks
HeaderFields == <<30, 2, 2, 4, 4, 2, 2, 2>>
\* read_desc_block up to and including product_code
DescHead == <<2, 4, 4, 2, 2>>
\* read_desc_block after product_code: mode, vcp, req seq, vol seq, scan date,
\* scan time, product date, product time, 27 words, version, spot blank,
\* three offsets
DescTail == <<2, 2, 2, 2, 2, 4, 2, 4, 54, 1, 1, 4, 4, 4>>
\* read_symbology: separator, block id
SymHead == <<2, 2>>
\* read_symbology: block length, layers, layer separator, layer_num_bytes
SymTail == <<4, 2, 2, 4>>
\* read_tabular: separator, block id
TabHead == <<2, 2>>
\* read_tabular after the block id, up to and including num_pages
TabTail == <<4, 30, 2, 2, 2, 2, 2, 2, 4, 2, 4, 54, 1, 1, 4, 4, 4, 2, 2>>

\* offset of field i (1-based) of a layout
FieldOff(layout, i) == Sum(SubSeq(layout, 1, i - 1))


(***************************************************************************)
(* f32 arithmetic on exact rationals.                                      *)
(***************************************************************************)
NaN == <<0, 0>>
IsNaN(a) == a[2] = 0

Abs(n) == IF n < 0 THEN -n ELSE n

RECURSIVE GCD(_, _)
GCD(a, b) == IF b = 0 THEN a ELSE GCD(b, a % b)

\* n/d in lowest terms with a positive denominator; x/0 is non-finite
Norm(n, d) ==
    IF d = 0 THEN NaN
    ELSE LET g == GCD(Abs(n), Abs(d))
             s == IF d < 0 THEN -1 ELSE 1
         IN  <<(s * n) \div g, (s * d) \div g>>

Whole(n) == <<n, 1>>

\* least common multiple of two positive denominators
LCM(a, b) == (a \div GCD(a, b)) * b

FAdd(a, b) ==
    IF IsNaN(a) \/ IsNaN(b) THEN NaN
    ELSE LET d == LCM(a[2], b[2])
         IN  Norm(a[1] * (d \div a[2]) + b[1] * (d \div b[2]), d)
FNeg(a) == IF IsNaN(a) THEN NaN ELSE <<-a[1], a[2]>>
FSub(a, b) == FAdd(a, FNeg(b))
FMul(a, b) ==
    IF IsNaN(a) \/ IsNaN(b) THEN NaN ELSE Norm(a[1] * b[1], a[2] * b[2])
FDiv(a, b) ==
    IF IsNaN(a) \/ IsNaN(b) THEN NaN ELSE Norm(a[1] * b[2], a[2] * b[1])
\* comparisons: every comparison with NaN is false
FLt(a, b) == ~IsNaN(a) /\ ~IsNaN(b) /\ a[1] * b[2] < b[1] * a[2]
FGe(a, b) == ~IsNaN(a) /\ ~IsNaN(b) /\ a[1] * b[2] >= b[1] * a[2]
FLe(a, b) == FGe(b, a)

\* f32::ceil
FCeil(a) == IF IsNaN(a) THEN NaN ELSE Whole(-((-a[1]) \div a[2]))

\* "x as u32": truncates toward zero, saturates below at 0, NaN gives 0
AsU32(a) == IF IsNaN(a) \/ a[1] <= 0 THEN 0 ELSE a[1] \div a[2]

\* sum::<f32>() of a sequence of floats
RECURSIVE FSum(_)
FSum(s) == IF s = <<>> THEN Whole(0) ELSE FAdd(Head(s), FSum(Tail(s)))

\* largest r with r * r <= n, for 0 <= n < 2^31
RECURSIVE ISqrtIn(_, _, _)
ISqrtIn(n, lo, hi) ==
    IF lo = hi THEN lo
    ELSE LET mid == (lo + hi + 1) \div 2
         IN  IF mid * mid <= n THEN ISqrtIn(n, mid, hi) ELSE ISqrtIn(n, lo, mid - 1)
ISqrt(n) == ISqrtIn(n, 0, 46340)

\* The rounding quantum of the altitude computation: one third of a
\* kilometre, in which r_e = 4/3 * 6371 is exact.
Quantum == <<1, 3>>

\* floor(n * k / d) for k, d > 0
MulDiv(n, k, d) == (n * (k \div GCD(k, d))) \div (d \div GCD(k, d))

\* a finite float rounded down to a multiple of Quantum
Round(a) ==
    IF IsNaN(a) THEN NaN ELSE Norm(MulDiv(a[1], Quantum[2], a[2]), Quantum[2])

\* f32::sqrt, rounded down to a multiple of Quantum; the root of a negative is NaN
FSqrt(a) ==
    IF IsNaN(a) \/ a[1] < 0 THEN NaN
    ELSE Norm(ISqrt(MulDiv(a[1], Quantum[2] * Quantum[2], a[2])), Quantum[2])

\* x.to_radians().sin() and x.to_radians().cos() for x a whole number of
\* degrees with a rational sine or cosine; the inputs of the model are
\* drawn from these angles
SinDeg(x) ==
    IF IsNaN(x) THEN NaN
    ELSE LET d == x[1] % 360
         IN  CASE x[2] = 1 /\ d \in {0, 180} -> Whole(0)
               [] x[2] = 1 /\ d = 90 -> Whole(1)
               [] x[2] = 1 /\ d = 270 -> Whole(-1)
               [] x[2] = 1 /\ d \in {30, 150} -> <<1, 2>>
               [] x[2] = 1 /\ d \in {210, 330} -> <<-1, 2>>
CosDeg(x) ==
    IF IsNaN(x) THEN NaN
    ELSE LET d == x[1] % 360
         IN  CASE x[2] = 1 /\ d \in {90, 270} -> Whole(0)
               [] x[2] = 1 /\ d = 0 -> Whole(1)
               [] x[2] = 1 /\ d = 180 -> Whole(-1)
               [] x[2] = 1 /\ d \in {60, 300} -> <<1, 2>>
               [] x[2] = 1 /\ d \in {120, 240} -> <<-1, 2>>

(***************************************************************************)
(* Text: a line is a sequence of bytes, each byte one char ("v as char").  *)
(***************************************************************************)
\* char::is_whitespace for the chars 0..255
IsWhitespace(b) == b \in {9, 10, 11, 12, 13, 32, 133, 160}

RECURSIVE TrimStart(_)
TrimStart(s) ==
    IF s # <<>> /\ IsWhitespace(Head(s)) THEN TrimStart(Tail(s)) ELSE s

RECURSIVE TrimEnd(_)
TrimEnd(s) ==
    IF s # <<>> /\ IsWhitespace(s[Len(s)])
    THEN TrimEnd(SubSeq(s, 1, Len(s) - 1)) ELSE s

\* str::trim
Trim(s) == TrimEnd(TrimStart(s))

\* str::starts_with
StartsWith(s, prefix) ==
    Len(s) >= Len(prefix) /\ SubSeq(s, 1, Len(prefix)) = prefix

\* str::split_whitespace: the maximal runs of non-whitespace chars, in order
RECURSIVE SplitFrom(_, _, _)
SplitFrom(s, cur, acc) ==
    IF s = <<>> THEN (IF cur = <<>> THEN acc ELSE Append(acc, cur))
    ELSE IF IsWhitespace(Head(s))
         THEN SplitFrom(Tail(s), <<>>, IF cur = <<>> THEN acc ELSE Append(acc, cur))
         ELSE SplitFrom(Tail(s), Append(cur, Head(s)), acc)
SplitWhitespace(s) == SplitFrom(s, <<>>, <<>>)

\* "VAD Algorithm Output"
VadTitle ==
    <<86, 65, 68, 32, 65, 108, 103, 111, 114, 105, 116, 104, 109, 32,
      79, 117, 116, 112, 117, 116>>

IsDigit(b) == b \in 48..57
ToLower(b) == IF b \in 65..90 THEN b + 32 ELSE b

RECURSIVE DigitsVal(_, _)
DigitsVal(s, acc) ==
    IF s = <<>> THEN acc ELSE DigitsVal(Tail(s), acc * 10 + (Head(s) - 48))

RECURSIVE Pow10(_)
Pow10(k) == IF k = 0 THEN 1 ELSE 10 * Pow10(k - 1)

\* str::parse::<f32>: an optional sign, then "nan", "inf" or "infinity" in
\* any case, or decimal digits with at most one '.'.  Exponents ('e') are
\* not modelled: no input of the model holds one.
ParseF32(tok) ==
    LET signed == tok # <<>> /\ tok[1] \in {43, 45}
        neg    == tok # <<>> /\ tok[1] = 45
        body   == IF signed THEN Tail(tok) ELSE tok
        lower  == [i \in 1..Len(body) |-> ToLower(body[i])]
        dots   == {i \in 1..Len(body) : body[i] = 46}
        digits == SelectSeq(body, IsDigit)
        fail   == [ok |-> FALSE, val |-> NaN]
    IN  IF lower \in {<<110, 97, 110>>, <<105, 110, 102>>,
                      <<105, 110, 102, 105, 110, 105, 116, 121>>}
        THEN [ok |-> TRUE, val |-> NaN]
        ELSE IF digits = <<>> \/ Cardinality(dots) > 1
                \/ Len(digits) + Cardinality(dots) # Len(body)
        THEN fail
        ELSE LET frac == IF dots = {} THEN 0
                         ELSE Len(body) - (CHOOSE i \in dots : TRUE)
                 mag  == Norm(DigitsVal(digits, 0), Pow10(frac))
             IN  [ok |-> TRUE, val |-> IF neg THEN FNeg(mag) ELSE mag]

(***************************************************************************)
(* get_data                                                                *)
(***************************************************************************)
\* r_e = 4. / 3. * 6371.
R_e == FMul(FDiv(Whole(4), Whole(3)), Whole(6371))

\* values[8].parse::<f32>()? * 6076.1 / 3281.
SlantRange(nm) == Round(FDiv(FMul(nm, <<60761, 10>>), Whole(3281)))

\* (r_e^2 + slant_range^2 + 2 r_e slant_range sin(elev_angle)).sqrt() - r_e
Altitude(slant_range, elev_angle) ==
    FSub(FSqrt(FAdd(FAdd(FMul(R_e, R_e), FMul(slant_range, slant_range)),
                    FMul(FMul(FMul(Whole(2), R_e), slant_range), SinDeg(elev_angle)))),
         R_e)

\* The body of the loop over vad_list for one line: a missing field panics
\* (index out of bounds), a field that does not parse returns the error.
ParseLine(line) ==
    LET values == SplitWhitespace(line)
        field(i) == ParseF32(values[i + 1])
        panic == [st |-> "Panic", msg |-> <<>>]
        error == [st |-> "Err", msg |-> <<>>]
    IN  IF Len(values) <= 4 THEN panic
        ELSE IF ~field(4).ok THEN error
        ELSE IF Len(values) <= 5 THEN panic
        ELSE IF ~field(5).ok THEN error
        ELSE IF Len(values) <= 8 THEN panic
        ELSE IF ~field(8).ok THEN error
        ELSE IF Len(values) <= 9 THEN panic
        ELSE IF ~field(9).ok THEN error
        ELSE [st |-> "Ok",
              msg |-> [wind_dir |-> field(4).val,
                       wind_spd |-> field(5).val,
                       altitude |-> Altitude(SlantRange(field(8).val), field(9).val)]]

\* the loop over vad_list: stops at the first line that panics or fails
RECURSIVE ParseLines(_, _)
ParseLines(lines, acc) ==
    IF lines = <<>> THEN [st |-> "Ok", prof |-> acc]
    ELSE LET r == ParseLine(Head(lines))
         IN  IF r.st = "Ok" THEN ParseLines(Tail(lines), Append(acc, r.msg))
             ELSE [st |-> r.st, prof |-> <<>>]

\* page[0].trim().starts_with("VAD Algorithm Output")
IsVadPage(page) == StartsWith(Trim(page[1]), VadTitle)

\* the loop over the pages: page[0] panics on a page without lines, page[3..]
\* on a matching page of fewer than three lines
PagePanics(page) == page = <<>> \/ (IsVadPage(page) /\ Len(page) < 3)

RECURSIVE VadList(_)
VadList(pages) ==
    IF pages = <<>> THEN <<>>
    ELSE (IF IsVadPage(Head(pages)) THEN SubSeq(Head(pages), 4, Len(Head(pages)))
          ELSE <<>>) \o VadList(Tail(pages))

\* slice::sort_by with partial_cmp: a stable sort by altitude
RECURSIVE InsertSorted(_, _)
InsertSorted(sorted, m) ==
    IF sorted = <<>> THEN <<m>>
    ELSE IF FLt(m.altitude, Head(sorted).altitude) THEN <<m>> \o sorted
    ELSE <<Head(sorted)>> \o InsertSorted(Tail(sorted), m)

RECURSIVE SortFrom(_, _)
SortFrom(prof, acc) ==
    IF prof = <<>> THEN acc ELSE SortFrom(Tail(prof), InsertSorted(acc, Head(prof)))

\* the profile left in the order of the lines
Unsorted(prof) == prof

SortByAltitude(prof) == SortFrom(prof, <<>>)

\* partial_cmp(..).unwrap() panics when a compared altitude is NaN; a slice
\* of fewer than two elements is never compared
SortPanics(prof) ==
    Len(prof) >= 2 /\ \E i \in 1..Len(prof) : IsNaN(prof[i].altitude)

get_data(pages) ==
    IF \E i \in 1..Len(pages) : PagePanics(pages[i])
    THEN [st |-> "Panic", err |-> "", prof |-> <<>>]
    ELSE LET r == ParseLines(VadList(pages), <<>>)
         IN  IF r.st = "Panic" THEN [st |-> "Panic", err |-> "", prof |-> <<>>]
             ELSE IF r.st = "Err"
             THEN [st |-> "Err", err |-> "ParseFloatError", prof |-> <<>>]
             ELSE IF SortPanics(r.prof)
             THEN [st |-> "Panic", err |-> "", prof |-> <<>>]
             ELSE [st |-> "Ok", err |-> "", prof |-> SortByAltitude(r.prof)]


(***************************************************************************)
(* The decoder functions of vad_file.rs, each from byte offset p of s.     *)
(* A read_exact that fails has consumed what was left of the stream.       *)
(***************************************************************************)
Eof(s) == [st |-> "Err", err |-> "UnexpectedEof", pos |-> Len(s)]

read_headers(s, p) ==
    IF ~CanRead(s, p, Sum(HeaderFields)) THEN Eof(s)
    ELSE [st |-> "Ok", err |-> "", pos |-> p + Sum(HeaderFields)]

\* the product code the assert! of read_desc_block demands
ProductCodeVWP == 48

\* read_desc_block up to the call of read_symbology
read_desc_block(s, p) ==
    LET q == p + Sum(DescHead)
        fail(r) == r @@ [time |-> <<0, 0>>, location |-> <<NaN, NaN>>,
                         offset_symbology |-> 0, has_tabular |-> FALSE]
    IN  IF ~CanRead(s, p, Sum(DescHead)) THEN fail(Eof(s))
        ELSE IF ReadI16(s, p + FieldOff(DescHead, 5)) # ProductCodeVWP
        THEN fail([st |-> "Panic", err |-> "", pos |-> q])
        ELSE IF ~CanRead(s, q, Sum(DescTail)) THEN fail(Eof(s))
        ELSE [st |-> "Ok", err |-> "", pos |-> q + Sum(DescTail),
              time |-> <<ReadI16(s, q + FieldOff(DescTail, 5)),
                         ReadI32(s, q + FieldOff(DescTail, 6))>>,
              location |-> <<Norm(ReadI32(s, p + FieldOff(DescHead, 2)), 1000),
                             Norm(ReadI32(s, p + FieldOff(DescHead, 3)), 1000)>>,
              offset_symbology |-> ReadI32(s, q + FieldOff(DescTail, 12)),
              has_tabular |-> ReadI32(s, q + FieldOff(DescTail, 14)) > 0]

\* read_symbology up to read_vec!: want is the size in bytes of the buffer
\* read_vec! allocates, layer_num_bytes as usize / 2 words of two bytes
read_symbology(s, p) ==
    LET q == p + Sum(SymHead)
        layer_num_bytes == ReadI32(s, q + FieldOff(SymTail, 4))
    IN  IF ~CanRead(s, p, Sum(SymHead)) THEN Eof(s) @@ [want |-> 0]
        ELSE IF ReadI16(s, p + FieldOff(SymHead, 2)) # 1
        THEN [st |-> "Err", err |-> "SymbologyBlockError", pos |-> q, want |-> 0]
        ELSE IF ~CanRead(s, q, Sum(SymTail)) THEN Eof(s) @@ [want |-> 0]
        ELSE IF AllocPanics(layer_num_bytes)
        THEN [st |-> "Panic", err |-> "", pos |-> q + Sum(SymTail), want |-> 0]
        ELSE [st |-> "Ok", err |-> "", pos |-> q + Sum(SymTail),
              want |-> 2 * (layer_num_bytes \div 2)]

\* read_vec! calls Read::read once and drops the count it returns: any
\* number of bytes from 1 up to the buffer's size or what is left of the
\* stream may have been consumed (0 only for an empty buffer or at the end)
ReadCounts(s, p, n) ==
    IF Min(n, Len(s) - p) = 0 THEN {0} ELSE 1..Min(n, Len(s) - p)

\* the while loop with "num_chars > 0" for its condition: an empty line ends
\* the page as well
RECURSIVE ReadPageToEmpty(_, _, _)
ReadPageToEmpty(s, p, message) ==
    IF ~CanRead(s, p, 2) THEN Eof(s) @@ [message |-> <<>>]
    ELSE LET num_chars == ReadI16(s, p)
         IN  IF num_chars <= 0
             THEN [st |-> "Ok", err |-> "", pos |-> p + 2, message |-> message]
             ELSE IF ~CanRead(s, p + 2, num_chars) THEN Eof(s) @@ [message |-> <<>>]
             ELSE ReadPageToEmpty(s, p + 2 + num_chars,
                                  Append(message, Bytes(s, p + 2, num_chars)))

\* the while loop of read_tabular for one page, from the length at p
RECURSIVE ReadPage(_, _, _)
ReadPage(s, p, message) ==
    IF ~CanRead(s, p, 2) THEN Eof(s) @@ [message |-> <<>>]
    ELSE LET num_chars == ReadI16(s, p)
         IN  IF num_chars = -1
             THEN [st |-> "Ok", err |-> "", pos |-> p + 2, message |-> message]
             ELSE IF AllocPanics(num_chars)
             THEN [st |-> "Panic", err |-> "", pos |-> p + 2, message |-> <<>>]
             ELSE IF ~CanRead(s, p + 2, num_chars) THEN Eof(s) @@ [message |-> <<>>]
             ELSE ReadPage(s, p + 2 + num_chars,
                           Append(message, Bytes(s, p + 2, num_chars)))

\* the for loop of read_tabular: n pages are still to be read
RECURSIVE ReadPages(_, _, _, _)
ReadPages(s, p, n, msgs) ==
    IF n <= 0 THEN [st |-> "Ok", err |-> "", pos |-> p, messages |-> msgs]
    ELSE LET r == ReadPage(s, p, <<>>)
         IN  IF r.st = "Ok" THEN ReadPages(s, r.pos, n - 1, Append(msgs, r.message))
             ELSE [st |-> r.st, err |-> r.err, pos |-> r.pos, messages |-> <<>>]

read_tabular(s, p) ==
    LET q == p + Sum(TabHead)
    IN  IF ~CanRead(s, p, Sum(TabHead)) THEN Eof(s) @@ [messages |-> <<>>]
        ELSE IF ReadI16(s, p + FieldOff(TabHead, 2)) # 3
        THEN [st |-> "Err", err |-> "TabularBlockError", pos |-> q, messages |-> <<>>]
        ELSE IF ~CanRead(s, q, Sum(TabTail)) THEN Eof(s) @@ [messages |-> <<>>]
        ELSE ReadPages(s, q + Sum(TabTail), ReadI16(s, q + FieldOff(TabTail, 19)), <<>>)

(***************************************************************************)
(* vad_params.rs: Comp is [u, v].  A Vector is [dir, spd2]: its direction  *)
(* is kept exact as the ray <<x, y>> of whole numbers without common       *)
(* factor that points along (cos dir, sin dir), <<0, 0>> when the vector   *)
(* is zero or NaN; its speed is kept exact as its square.                  *)
(***************************************************************************)
\* the ray along (x, y)
Ray(x, y) ==
    IF IsNaN(x) \/ IsNaN(y) THEN <<0, 0>>
    ELSE LET a == x[1] * y[2]
             b == y[1] * x[2]
             g == GCD(Abs(a), Abs(b))
         IN  IF g = 0 THEN <<0, 0>> ELSE <<a \div g, b \div g>>

\* impl From<Comp> for Vector: 90 - atan2(-v, -u) in degrees, hypot(u, v).
\* atan2(-v, -u) points along (-u, -v); 90 degrees minus it along (-v, -u).
VectorFromComp(c) ==
    [dir  |-> Ray(FNeg(c.v), FNeg(c.u)),
     spd2 |-> FAdd(FMul(c.u, c.u), FMul(c.v, c.v))]

\* the square root of a float: exact when it is rational, else rounded
FRoot(q) ==
    IF IsNaN(q) \/ q[1] < 0 THEN NaN
    ELSE LET r == <<ISqrt(q[1]), ISqrt(q[2])>>
         IN  IF r[1] * r[1] = q[1] /\ r[2] * r[2] = q[2] THEN r ELSE FSqrt(q)

\* impl From<Vector> for Comp: (-spd sin(dir), -spd cos(dir))
CompFromVector(vec) ==
    LET x == vec.dir[1]
        y == vec.dir[2]
    IN  IF IsNaN(vec.spd2) THEN [u |-> NaN, v |-> NaN]
        ELSE IF vec.dir = <<0, 0>> THEN [u |-> Whole(0), v |-> Whole(0)]
        ELSE LET scale == FRoot(FDiv(vec.spd2, Whole(x * x + y * y)))
             IN  [u |-> FNeg(FMul(scale, Whole(y))),
                  v |-> FNeg(FMul(scale, Whole(x)))]

\* impl Sub for Comp
CompSub(a, b) == [u |-> FSub(a.u, b.u), v |-> FSub(a.v, b.v)]

\* VadProfile::altitude, ::u and ::v
altitude(prof) == [i \in 1..Len(prof) |-> prof[i].altitude]
u(prof) ==
    [i \in 1..Len(prof) |-> FMul(FNeg(prof[i].wind_spd), SinDeg(prof[i].wind_dir))]
v(prof) ==
    [i \in 1..Len(prof) |-> FMul(FNeg(prof[i].wind_spd), CosDeg(prof[i].wind_dir))]

\* the index find() returns in interp, from 1: the first i with x >= xp[i],
\* 0 when there is none
FirstAtOrBelow(x, xp) ==
    IF \E i \in 1..Len(xp) : FGe(x, xp[i])
    THEN CHOOSE i \in 1..Len(xp) :
            FGe(x, xp[i]) /\ \A j \in 1..(i - 1) : ~FGe(x, xp[j])
    ELSE 0

\* the bracket of the usual piecewise-linear interpolation: the last i with
\* x >= xp[i]
LastAtOrBelow(x, xp) ==
    IF \E i \in 1..Len(xp) : FGe(x, xp[i])
    THEN CHOOSE i \in 1..Len(xp) :
            FGe(x, xp[i]) /\ \A j \in (i + 1)..Len(xp) : ~FGe(x, xp[j])
    ELSE 0

\* the index interp interpolates from
InterpIndex(x, xp) == FirstAtOrBelow(x, xp)

\* the last line of interp, for the index i find() returned (0: none, the
\* function returns None); yp[i + 1] panics when i is the last index
Lerp(x, i, xp, yp) ==
    IF i = 0 THEN [st |-> "None", val |-> NaN]
    ELSE IF i + 1 > Len(xp) THEN [st |-> "Panic", val |-> NaN]
    ELSE [st  |-> "Some",
          val |-> FAdd(yp[i], FDiv(FMul(FSub(x, xp[i]), FSub(yp[i + 1], yp[i])),
                                   FSub(xp[i + 1], xp[i])))]

\* if x < xp[0] { x = xp[0] }
Clamp(x, xp) == IF FLt(x, xp[1]) THEN xp[1] ELSE x

\* interp after x has been clamped
InterpFrom(x, xp, yp) == Lerp(x, InterpIndex(x, xp), xp, yp)

\* interp(x, xp, yp): xp[0] panics on an empty slice
interp(x, xp, yp) ==
    IF xp = <<>> THEN [st |-> "Panic", val |-> NaN]
    ELSE InterpFrom(Clamp(x, xp), xp, yp)

\* one call of interp and what it returned
InterpCall(x, xp, yp) == [x |-> x, xp |-> xp, yp |-> yp] @@ interp(x, xp, yp)

\* Some(Comp(interp(..u..)?, interp(..v..)?)): the second interp is not
\* called when the first one has returned None or panicked
CompOf(cu, cv) ==
    IF cu.st # "Some"
    THEN [st |-> cu.st, comp |-> [u |-> NaN, v |-> NaN], interps |-> {cu}]
    ELSE [st |-> cv.st, comp |-> [u |-> cu.val, v |-> cv.val], interps |-> {cu, cv}]

\* VadProfile::interp_height
interp_height(prof, height) ==
    CompOf(InterpCall(height, altitude(prof), u(prof)),
           InterpCall(height, altitude(prof), v(prof)))

NoVector == [dir |-> <<0, 0>>, spd2 |-> NaN]

\* xs of mean_wind: (prof[0].altitude.ceil() as u32..top as u32), each
\* "as f32 / 1000."
SampleHeights(lo, hi) == [i \in 1..Max(hi - lo, 0) |-> Norm(lo + i - 1, 1000)]

\* the mean of mean_wind over the samples hs: interp_height(..).unwrap()
\* panics on a None, and the mean of no sample is 0/0.  The mean of v is
\* the first field of the Comp, the mean of u the second.
MeanOf(hs) ==
    IF \E i \in 1..Len(hs) : hs[i].st # "Some"
    THEN [st |-> "Panic", vec |-> NoVector,
          interps |-> UNION {hs[i].interps : i \in 1..Len(hs)}]
    ELSE [st |-> "Some",
          vec |-> VectorFromComp(
                    [u |-> FDiv(FSum([i \in 1..Len(hs) |-> hs[i].comp.v]), Whole(Len(hs))),
                     v |-> FDiv(FSum([i \in 1..Len(hs) |-> hs[i].comp.u]), Whole(Len(hs)))]),
          interps |-> UNION {hs[i].interps : i \in 1..Len(hs)}]

\* interp_height at each of the heights xs
SamplesAt(prof, xs) == [i \in 1..Len(xs) |-> interp_height(prof, xs[i])]

\* VadProfile::mean_wind
mean_wind(prof, top) ==
    IF prof = <<>> \/ FGe(top, prof[Len(prof)].altitude)
    THEN [st |-> "None", vec |-> NoVector, interps |-> {}]
    ELSE MeanOf(SamplesAt(prof, SampleHeights(AsU32(FCeil(prof[1].altitude)), AsU32(top))))

\* Some((t? - b?).into()) for t = interp_height(top), evaluated first, and
\* b = interp_height(bot)
ShearOf(t, b) ==
    IF t.st # "Some" THEN [st |-> t.st, vec |-> NoVector, interps |-> t.interps]
    ELSE IF b.st # "Some"
    THEN [st |-> b.st, vec |-> NoVector, interps |-> t.interps \cup b.interps]
    ELSE [st |-> "Some", vec |-> VectorFromComp(CompSub(t.comp, b.comp)),
          interps |-> t.interps \cup b.interps]

\* VadProfile::wind_shear
wind_shear(prof, bot, top) ==
    IF prof = <<>> THEN [st |-> "None", vec |-> NoVector, interps |-> {}]
    ELSE ShearOf(interp_height(prof, top), interp_height(prof, bot))

\* 7.5f32.ms_to_kts(): 7.5 * 1.94384, rounded down to a multiple of Quantum
Deviation == Round(FMul(<<15, 2>>, <<194384, 100000>>))

\* f32::hypot, rounded down to a multiple of Quantum when it is irrational
FHypot(a, b) == FRoot(FAdd(FMul(a, a), FMul(b, b)))

\* rs and ls of bunkers, as Vectors
Movers(mn, shr, tmp) ==
    <<VectorFromComp([u |-> FAdd(mn.u, FMul(tmp, shr.v)),
                      v |-> FSub(mn.v, FMul(tmp, shr.u))]),
      VectorFromComp([u |-> FSub(mn.u, FMul(tmp, shr.v)),
                      v |-> FAdd(mn.v, FMul(tmp, shr.u))])>>

\* bunkers once Comp(mnu6, mnv6) and Comp(shru, shrv) are known
MoversOf(mn, shr) == Movers(mn, shr, FDiv(Deviation, FHypot(shr.u, shr.v)))

\* bunkers for mw = self.mean_wind(6.) and ws = self.wind_shear(0., 6.),
\* which is not called when mean_wind has returned None
BunkersOf(mw, ws) ==
    IF mw.st # "Some" THEN [st |-> mw.st, vecs |-> <<>>, interps |-> mw.interps]
    ELSE IF ws.st # "Some"
    THEN [st |-> ws.st, vecs |-> <<>>, interps |-> mw.interps \cup ws.interps]
    ELSE [st |-> "Some",
          vecs |-> MoversOf(CompFromVector(mw.vec), CompFromVector(ws.vec)),
          interps |-> mw.interps \cup ws.interps]

\* VadProfile::bunkers
bunkers(prof) ==
    IF prof = <<>> THEN [st |-> "None", vecs |-> <<>>, interps |-> {}]
    ELSE BunkersOf(mean_wind(prof, Whole(6)), wind_shear(prof, Whole(0), Whole(6)))

(***************************************************************************)
(* The input streams: a product is described by the fields the decoder     *)
(* looks at, encoded in the Level-3 framing and cut after src.cut bytes.   *)
(* A block is in the stream exactly when its offset is not 0.              *)
(***************************************************************************)
\* decimal digits of a natural number
RECURSIVE Dec(_)
Dec(n) == IF n < 10 THEN <<48 + n>> ELSE Append(Dec(n \div 10), 48 + (n % 10))

RECURSIVE Join(_)
Join(toks) ==
    IF toks = <<>> THEN <<>>
    ELSE IF Len(toks) = 1 THEN toks[1]
    ELSE toks[1] \o <<32>> \o Join(Tail(toks))

\* a data line: ALT U V W DIR SPD RMS DIV SRNG ELEV
DataLine(dir, spd, srng, elev) ==
    Join(<<Dec(10), Dec(0), Dec(0), Dec(0), dir, spd, Dec(1), Dec(0), srng, elev>>)

\* the data lines of the model: three well-formed lines (altitudes 5/3, 9
\* and 8/3 km), a direction "x", a slant range "NaN", and an empty line
LineKinds ==
    << DataLine(Dec(90), Dec(10), Dec(1), Dec(90)),
       DataLine(Dec(180), Dec(20), Dec(5), Dec(90)),
       DataLine(Dec(270), Dec(30), Dec(3), Dec(30)),
       DataLine(<<120>>, Dec(20), Dec(5), Dec(90)),
       DataLine(Dec(0), Dec(20), <<78, 97, 78>>, Dec(90)),
       <<>> >>

DataLines(max) ==
    UNION {{[i \in 1..n |-> LineKinds[f[i]]] : f \in [1..n -> 1..Len(LineKinds)]} :
           n \in 0..max}


\* " VAD Algorithm Output 1": the title line of a page, indented
TitleLine == <<32>> \o VadTitle \o <<32, 49>>

\* a page of the VAD algorithm output: the title, an empty line, the column
\* titles ("ALT"), then the data lines
VadPage(lines) == <<TitleLine, <<>>, <<65, 76, 84>>>> \o lines

\* a page of another kind: its one line is "VAD"
OtherPage == << <<86, 65, 68>> >>

\* the pages of the products that vary the framing
FramingPages == <<OtherPage, VadPage(<<LineKinds[2], LineKinds[1]>>)>>

\* the pages of the products that vary the text
ContentPages ==
    {<<VadPage(d), OtherPage, VadPage(e)>> : d \in DataLines(MaxLines), e \in DataLines(1)}
    \cup {<<>>, << <<>> >>, << <<TitleLine>> >>, <<OtherPage>>,
          <<VadPage(<<LineKinds[1]>>), <<>> >>}

EncPage(page) ==
    Concat([i \in 1..Len(page) |-> I16Bytes(Len(page[i])) \o page[i]]) \o I16Bytes(-1)

EncTabular(p) ==
    I16Bytes(-1) \o I16Bytes(p.tab_id) \o Zeros(Sum(TabTail) - 4)
    \o I16Bytes(-1) \o I16Bytes(Len(p.pages))
    \o Concat([i \in 1..Len(p.pages) |-> EncPage(p.pages[i])])

EncSymbology(p) ==
    I16Bytes(-1) \o I16Bytes(p.sym_id) \o I32Bytes(0) \o I16Bytes(1) \o I16Bytes(-1)
    \o I32Bytes(p.layer_num_bytes) \o [i \in 1..Max(p.layer_num_bytes, 0) |-> 1]

EncGraphic == I16Bytes(-1) \o I16Bytes(2) \o Zeros(4)

EncDesc(p) ==
    I16Bytes(-1) \o I32Bytes(p.lat) \o I32Bytes(p.lon) \o I16Bytes(0)
    \o I16Bytes(p.product_code) \o Zeros(8)
    \o I16Bytes(p.scan_date) \o I32Bytes(p.scan_time) \o Zeros(6 + 54 + 2)
    \o I32Bytes(p.offset_symbology) \o I32Bytes(p.offset_graphic)
    \o I32Bytes(p.offset_tabular)

SymBlock(p) == IF p.offset_symbology # 0 THEN EncSymbology(p) ELSE <<>>
GraphicBlock(p) == IF p.offset_graphic # 0 THEN EncGraphic ELSE <<>>
TabBlock(p) == IF p.offset_tabular # 0 THEN EncTabular(p) ELSE <<>>

\* the whole product
Product(p) ==
    Zeros(Sum(HeaderFields)) \o EncDesc(p) \o SymBlock(p) \o GraphicBlock(p) \o TabBlock(p)

\* where the blocks lie in the product
DescOffset == Sum(HeaderFields)
SymOffset == DescOffset + Sum(DescHead) + Sum(DescTail)
GraphicOffset(p) == SymOffset + Len(SymBlock(p))
TabOffset(p) == GraphicOffset(p) + Len(GraphicBlock(p))

\* the lengths a product is cut to: whole, or at most MaxCutBack bytes short
\* of the end of the headers, the product code, a block's fixed fields or a
\* block
CutPoints(p) ==
    LET ends == {DescOffset, DescOffset + Sum(DescHead), SymOffset,
                 SymOffset + Sum(SymHead) + Sum(SymTail), GraphicOffset(p),
                 TabOffset(p), TabOffset(p) + Sum(TabHead) + Sum(TabTail),
                 Len(Product(p))}
    IN  {Len(Product(p))}
        \cup {e - j : e \in {x \in ends : x <= Len(Product(p))}, j \in 0..MaxCutBack}

Framing(code, sym, graphic, tab, pages) ==
    [product_code |-> code, lat |-> 35123, lon |-> -101234,
     scan_date |-> 18000, scan_time |-> 3600,
     offset_symbology |-> sym.off, sym_id |-> sym.id, layer_num_bytes |-> sym.n,
     offset_graphic |-> graphic,
     offset_tabular |-> tab.off, tab_id |-> tab.id,
     pages |-> IF tab.off # 0 THEN pages ELSE <<>>]

SymChoices ==
    {[off |-> 0, id |-> 1, n |-> 0], [off |-> -1, id |-> 1, n |-> 2],
     [off |-> 60, id |-> 2, n |-> 0]}
    \cup {[off |-> 60, id |-> 1, n |-> n] : n \in {-1, 0, 3, 4}}

TabChoices ==
    {[off |-> 0, id |-> 3], [off |-> 80, id |-> 3], [off |-> 80, id |-> 4]}

\* products that vary the framing and where the stream ends
FramingInputs ==
    LET ps == {Framing(code, sym, graphic, tab, FramingPages) :
                  code \in {ProductCodeVWP, 47}, sym \in SymChoices,
                  graphic \in {0, 70}, tab \in TabChoices}
    IN  UNION {{p @@ [cut |-> c] : c \in CutPoints(p)} : p \in ps}

\* whole products of valid framing that vary the text of the pages
ContentInputs ==
    {LET p == Framing(ProductCodeVWP, [off |-> 0, id |-> 1, n |-> 0], 0,
                      [off |-> 80, id |-> 3], pages)
     IN  p @@ [cut |-> Len(Product(p))] : pages \in ContentPages}

Inputs == FramingInputs \cup ContentInputs

(***************************************************************************)
(* VadFile::from_reader                                                    *)
(***************************************************************************)
\* create_placefile has not been called
NoClient ==
    [pc |-> "idle", exists |-> FALSE, dir |-> <<>>, now |-> 0, bytes |-> <<>>,
     created |-> FALSE, placefile |-> <<>>, outcome |-> "Running", err |-> "",
     seen |-> <<>>]

NoCall == [fn |-> "none", args |-> <<>>, st |-> "none", result |-> <<>>, interps |-> {}]

Init ==
    /\ src \in Inputs
    /\ stream = SubSeq(Product(src), 1, src.cut)
    /\ pos = 0
    /\ pc = "read_headers"
    /\ visited = {}
    /\ outcome = "Running"
    /\ err = ""
    /\ time = <<0, 0>>
    /\ location = <<NaN, NaN>>
    /\ has_tabular = FALSE
    /\ messages = <<>>
    /\ data = <<>>
    /\ shortRead = FALSE
    /\ hitEnd = FALSE
    /\ tabStart = -1
    /\ call = NoCall
    /\ client = NoClient

\* a "?" on an error, or a panic, ends from_reader
Fails(r) ==
    /\ pc' = "done"
    /\ outcome' = r.st
    /\ err' = r.err

\* the read_exact calls of a function found the stream too short
SawEnd(r) == hitEnd' = (hitEnd \/ (r.st = "Err" /\ r.err = "UnexpectedEof"))

ReadHeaders ==
    /\ UNCHANGED client
    /\ pc = "read_headers"
    /\ visited' = visited \cup {"read_headers"}
    /\ LET r == read_headers(stream, pos)
       IN  /\ pos' = r.pos
           /\ SawEnd(r)
           /\ IF r.st = "Ok"
              THEN pc' = "read_desc_block" /\ UNCHANGED <<outcome, err>>
              ELSE Fails(r)
    /\ UNCHANGED <<src, stream, time, location, has_tabular, messages, data,
                   shortRead, tabStart, call>>

\* from_reader after read_desc_block has returned
AfterDesc(tabular) == IF tabular THEN "read_tabular" ELSE "get_data"

ReadDescBlock ==
    /\ UNCHANGED client
    /\ pc = "read_desc_block"
    /\ visited' = visited \cup {"read_desc_block"}
    /\ LET r == read_desc_block(stream, pos)
       IN  /\ pos' = r.pos
           /\ SawEnd(r)
           /\ time' = r.time
           /\ location' = r.location
           /\ has_tabular' = r.has_tabular
           /\ IF r.st = "Ok"
              THEN /\ pc' = IF r.offset_symbology > 0 THEN "read_symbology"
                            ELSE AfterDesc(r.has_tabular)
                   /\ UNCHANGED <<outcome, err>>
              ELSE Fails(r)
    /\ UNCHANGED <<src, stream, messages, data, shortRead, tabStart, call>>

ReadSymbology ==
    /\ UNCHANGED client
    /\ pc = "read_symbology"
    /\ visited' = visited \cup {"read_symbology"}
    /\ LET r == read_symbology(stream, pos)
       IN  IF r.st = "Ok"
           THEN \E got \in ReadCounts(stream, r.pos, r.want) :
                   /\ pos' = r.pos + got
                   /\ shortRead' = (got < r.want)
                   /\ hitEnd' = (hitEnd \/ r.want > Len(stream) - r.pos)
                   /\ pc' = AfterDesc(has_tabular)
                   /\ UNCHANGED <<outcome, err>>
           ELSE /\ pos' = r.pos
                /\ SawEnd(r)
                /\ Fails(r)
                /\ UNCHANGED shortRead
    /\ UNCHANGED <<src, stream, time, location, has_tabular, messages, data,
                   tabStart, call>>

ReadTabular ==
    /\ UNCHANGED client
    /\ pc = "read_tabular"
    /\ visited' = visited \cup {"read_tabular"}
    /\ tabStart' = pos
    /\ LET r == read_tabular(stream, pos)
       IN  /\ pos' = r.pos
           /\ SawEnd(r)
           /\ messages' = r.messages
           /\ IF r.st = "Ok"
              THEN pc' = "get_data" /\ UNCHANGED <<outcome, err>>
              ELSE Fails(r)
    /\ UNCHANGED <<src, stream, time, location, has_tabular, data, shortRead, call>>

\* get_data(messages)? and the Ok(Self { data, location, time }) after it
GetData ==
    /\ UNCHANGED client
    /\ pc = "get_data"
    /\ visited' = visited \cup {"get_data"}
    /\ LET r == get_data(messages)
       IN  /\ data' = r.prof
           /\ pc' = "done"
           /\ outcome' = r.st
           /\ err' = r.err
    /\ UNCHANGED <<src, stream, pos, time, location, has_tabular, messages,
                   shortRead, hitEnd, tabStart, call>>

(***************************************************************************)
(* The profile mathematics, called on the profile of a returned VadFile.   *)
(***************************************************************************)
\* the heights (km) the calls are made with
Heights == {Whole(0), Whole(2), Whole(6), Whole(9), Whole(10)}

\* A VadFile has been returned and no call has been made on it yet: the
\* profile is never written after get_data, so a call does not depend on
\* the calls before it and one call a behaviour covers them all.
Returned == pc = "done" /\ outcome = "Ok" /\ call.fn = "none"

decoder == <<src, stream, pos, pc, visited, outcome, err, time, location,
             has_tabular, messages, data, shortRead, hitEnd, tabStart>>

\* the record of a call of fn with args that returned r
CallOf(fn, args, r, result) ==
    [fn |-> fn, args |-> args, st |-> r.st, result |-> result, interps |-> r.interps]

MeanWindResult(top, r) == CallOf("mean_wind", <<top>>, r, <<r.vec>>)
WindShearResult(bot, top, r) == CallOf("wind_shear", <<bot, top>>, r, <<r.vec>>)
BunkersResult(r) == CallOf("bunkers", <<>>, r, r.vecs)

MeanWind ==
    /\ UNCHANGED client
    /\ Returned
    /\ \E top \in Heights : call' = MeanWindResult(top, mean_wind(data, top))
    /\ UNCHANGED decoder

WindShear ==
    /\ UNCHANGED client
    /\ Returned
    /\ \E bot \in Heights, top \in Heights :
          call' = WindShearResult(bot, top, wind_shear(data, bot, top))
    /\ UNCHANGED decoder

Bunkers ==
    /\ UNCHANGED client
    /\ Returned
    /\ call' = BunkersResult(bunkers(data))
    /\ UNCHANGED decoder

Next ==
    \/ ReadHeaders
    \/ ReadDescBlock
    \/ ReadSymbology
    \/ ReadTabular
    \/ GetData
    \/ MeanWind
    \/ WindShear
    \/ Bunkers

Spec == Init /\ [][Next]_vars


(***************************************************************************)
(* vad_client.rs: VadClient::create_placefile.  The program's clock is in  *)
(* whole seconds after the epoch; a cache file is [name, contents], its    *)
(* name "{radar}.{time}" as cache_radar writes it.  File names are ASCII   *)
(* (into_string().unwrap() does not panic) and timestamps are far inside   *)
(* the range of i64 and of NaiveDateTime::from_timestamp.                  *)
(***************************************************************************)
\* "Title: VWP Hodographs\n" and "Refresh: 1\n\n"
PlacefileHeader ==
    <<84, 105, 116, 108, 101, 58, 32, 86, 87, 80, 32, 72, 111,
      100, 111, 103, 114, 97, 112, 104, 115, 10, 82, 101, 102,
      114, 101, 115, 104, 58, 32, 49, 10, 10>>

\* .split('.').last().unwrap(): what follows the last '.', the whole name
\* when it has none
LastSegment(s) ==
    IF \E i \in 1..Len(s) : s[i] = 46
    THEN LET i == CHOOSE k \in 1..Len(s) :
                     s[k] = 46 /\ \A j \in (k + 1)..Len(s) : s[j] # 46
         IN  SubSeq(s, i + 1, Len(s))
    ELSE s

\* str::parse::<i64>: an optional sign and one decimal digit or more
ParseI64(s) ==
    LET signed == s # <<>> /\ s[1] \in {43, 45}
        digits == IF signed THEN Tail(s) ELSE s
    IN  IF digits = <<>> \/ \E i \in 1..Len(digits) : ~IsDigit(digits[i])
        THEN [ok |-> FALSE, val |-> 0]
        ELSE [ok |-> TRUE,
              val |-> IF s[1] = 45 THEN -DigitsVal(digits, 0) ELSE DigitsVal(digits, 0)]

\* Duration::num_minutes of a duration of secs seconds: the whole minutes,
\* rounded towards zero
NumMinutes(secs) == IF secs >= 0 THEN secs \div 60 ELSE -((-secs) \div 60)

\* the 20 of "num_minutes() < 20"
WindowMinutes == 20

\* (datetime - Utc::now()).num_minutes() < 20, datetime the file's timestamp
IsCopied(stamp, now) == NumMinutes(stamp - now) < WindowMinutes

\* the clock when create_placefile is called
StartOfRun == 90000

\* the text after the radar's name in a file name: timestamps a day, 21 and
\* 20 minutes and a second less before the call, at the call, and as far
\* after it; a negative timestamp, a name that is no timestamp, no text
StampTexts ==
    {Dec(StartOfRun + off) :
        off \in {-86400, -1260, -1200, -1199, 0, 1199, 1200, 1260}}
    \cup {<<45, 54, 48>>, <<116, 109, 112>>, <<>>}

\* the i-th file of the cache: "k" and a letter, '.', the text; its contents
\* stand for the placefile text write_radar produced
CacheFile(i, text) == [name |-> <<107, 96 + i, 46>> \o text, contents |-> <<64 + i>>]

\* the listings read_dir may give: at most max files, in any order
Listings(max) ==
    UNION {{[i \in 1..n |-> CacheFile(i, f[i])] : f \in [1..n -> StampTexts]} :
           n \in 0..max}

ClientAt(exists, dir) ==
    [pc |-> "read_dir", exists |-> exists, dir |-> dir, now |-> StartOfRun,
     bytes |-> <<>>, created |-> FALSE, placefile |-> <<>>,
     outcome |-> "Running", err |-> "", seen |-> <<>>]

\* create_placefile is called; from_reader is not
PlaceInit ==
    /\ src = [cut |-> 0]
    /\ stream = <<>>
    /\ pos = 0
    /\ pc = "idle"
    /\ visited = {}
    /\ outcome = "Running"
    /\ err = ""
    /\ time = <<0, 0>>
    /\ location = <<NaN, NaN>>
    /\ has_tabular = FALSE
    /\ messages = <<>>
    /\ data = <<>>
    /\ shortRead = FALSE
    /\ hitEnd = FALSE
    /\ tabStart = -1
    /\ call = NoCall
    /\ \E exists \in BOOLEAN :
          \E dir \in (IF exists THEN Listings(MaxFiles) ELSE {<<>>}) :
             client = ClientAt(exists, dir)

\* a "?" on an error ends create_placefile
ClientFails(e) == [client EXCEPT !.pc = "done", !.outcome = "Err", !.err = e]

\* std::fs::read_dir("./cache/")?
ListCache ==
    /\ client.pc = "read_dir"
    /\ client' = IF client.exists THEN [client EXCEPT !.pc = "loop"]
                 ELSE ClientFails("NotFound")
    /\ UNCHANGED <<decoder, call>>

\* what the loop body did with a file: its timestamp, the clock it was
\* compared with, whether its contents were appended to bytes
Decision(file, stamp, now, copied) ==
    [name |-> file.name, stamp |-> stamp, now |-> now, copied |-> copied]

\* the loop body after the timestamp has been parsed, the clock reading now;
\* File::open fails when the file has gone since read_dir listed it
VisitFile(file, stamp, now, opened) ==
    IF ~IsCopied(stamp, now)
    THEN [client EXCEPT !.dir = Tail(@), !.now = now,
                        !.seen = Append(@, Decision(file, stamp, now, FALSE))]
    ELSE IF ~opened
    THEN [ClientFails("NotFound") EXCEPT !.now = now]
    ELSE [client EXCEPT !.dir = Tail(@), !.now = now,
                        !.bytes = @ \o file.contents,
                        !.seen = Append(@, Decision(file, stamp, now, TRUE))]

\* one turn of "for file_result in read_dir"
NextFile ==
    /\ client.pc = "loop"
    /\ client.dir # <<>>
    /\ LET file == Head(client.dir)
           time_ == ParseI64(LastSegment(file.name))
       IN  IF ~time_.ok THEN client' = ClientFails("ParseIntError")
           ELSE \E tick \in 0..MaxTick, opened \in BOOLEAN :
                   client' = VisitFile(file, time_.val, client.now + tick, opened)
    /\ UNCHANGED <<decoder, call>>

\* after the loop: File::create("vwp_hodographs"), the two header lines and
\* write_all(&bytes)
WritePlacefile ==
    /\ client.pc = "loop"
    /\ client.dir = <<>>
    /\ client' = [client EXCEPT !.pc = "done", !.outcome = "Ok", !.created = TRUE,
                                !.placefile = PlacefileHeader \o client.bytes]
    /\ UNCHANGED <<decoder, call>>

PlaceNext ==
    \/ ListCache
    \/ NextFile
    \/ WritePlacefile

PlacefileSpec == PlaceInit /\ [][PlaceNext]_vars

(***************************************************************************)
(* The claims.                                                             *)
(***************************************************************************)
Done == pc = "done"
WholeStream == src.cut = Len(Product(src))
CodeEnd == DescOffset + Sum(DescHead)

\* non-decreasing
Ascending(xs) == \A i \in 1..(Len(xs) - 1) : FLe(xs[i], xs[i + 1])

\* C1: a stream whose description block holds a product code other than 48
\* makes from_reader return a ProductCodeMismatch error to its caller, with
\* no byte read after the product code field.
C1_ProductCodeMismatch ==
    (Done /\ src.cut >= CodeEnd /\ src.product_code # ProductCodeVWP)
        => (outcome = "Err" /\ err = "ProductCodeMismatch" /\ pos = CodeEnd)

\* C2: interp returns None for every x at or above the last of the
\* ascending altitudes: it never extrapolates.
C2_NoExtrapolation ==
    \A c \in call.interps :
        (c.xp # <<>> /\ Ascending(c.xp) /\ FGe(c.x, c.xp[Len(c.xp)]))
            => c.st = "None"

\* C3: for ascending xs of two entries or more and x below the last of
\* them, interp returns ys[i] + (x' - xs[i]) (ys[i+1] - ys[i]) / (xs[i+1] - xs[i])
\* for x' = max(x, xs[0]) and i the first index with x' >= xs[i], which is
\* the first index of all.
C3_FirstBracket ==
    \A c \in call.interps :
        (Len(c.xp) >= 2 /\ Ascending(c.xp) /\ FLt(c.x, c.xp[Len(c.xp)]))
            => LET x1 == IF FLt(c.x, c.xp[1]) THEN c.xp[1] ELSE c.x
                   i  == CHOOSE k \in 1..Len(c.xp) :
                            FGe(x1, c.xp[k]) /\ \A j \in 1..(k - 1) : ~FGe(x1, c.xp[j])
               IN  /\ i = 1
                   /\ c.st = "Some"
                   /\ c.val = FAdd(c.yp[i],
                                   FDiv(FMul(FSub(x1, c.xp[i]), FSub(c.yp[i + 1], c.yp[i])),
                                        FSub(c.xp[i + 1], c.xp[i])))

\* C3 witness: interp has been called on three altitudes or more with an x
\* between the second and the last of them, where the first bracket is not
\* the bracket x lies in.
C3_Witness ==
    \E c \in call.interps :
        /\ Len(c.xp) >= 3
        /\ FLt(c.xp[1], c.xp[2])
        /\ FGe(c.x, c.xp[2])
        /\ FLt(c.x, c.xp[Len(c.xp)])
        /\ c.st = "Some"

\* C4: the profile of a VadFile that from_reader has returned is in
\* non-decreasing order of altitude.
C4_SortedProfile == (Done /\ outcome = "Ok") => Ascending(altitude(data))

\* C4 witness: a profile has been returned that was read from two pages of
\* the VAD output and whose lines were not in order of altitude.
C4_Witness ==
    /\ Done
    /\ outcome = "Ok"
    /\ Len(data) >= 3
    /\ Cardinality({i \in 1..Len(messages) : Len(messages[i]) > 3
                                              /\ IsVadPage(messages[i])}) >= 2
    /\ data # ParseLines(VadList(messages), <<>>).prof

\* C5: when a read of the decoder asks for more bytes than the stream has
\* left, the read fails and from_reader returns the truncation error and no
\* profile.
C5_TruncatedInput ==
    (Done /\ hitEnd) => (outcome = "Err" /\ err = "UnexpectedEof" /\ data = <<>>)

\* C6: mean_wind, wind_shear and bunkers return None when the profile is
\* empty or a height they are asked about (top; bot or top; 6 km) is at or
\* above the highest altitude of the profile.
AtOrAboveHighest(h) == data # <<>> /\ FGe(h, data[Len(data)].altitude)
C6_AbsentResults ==
    /\ (call.fn = "mean_wind" /\ (data = <<>> \/ AtOrAboveHighest(call.args[1])))
          => call.st = "None"
    /\ (call.fn = "wind_shear"
          /\ (data = <<>> \/ AtOrAboveHighest(call.args[1])
                \/ AtOrAboveHighest(call.args[2])))
          => call.st = "None"
    /\ (call.fn = "bunkers" /\ (data = <<>> \/ AtOrAboveHighest(Whole(6))))
          => call.st = "None"

\* C7: when a data line (index 3 or later of a page of the VAD output) has
\* a field 4, 5, 8 or 9 that is no number, get_data returns the parse error
\* and no profile.
MalformedLine(line) ==
    \E k \in {4, 5, 8, 9} :
        /\ Len(SplitWhitespace(line)) > k
        /\ ~ParseF32(SplitWhitespace(line)[k + 1]).ok
HasMalformedLine(pages) ==
    \E i \in 1..Len(pages) :
        /\ pages[i] # <<>>
        /\ IsVadPage(pages[i])
        /\ \E j \in 4..Len(pages[i]) : MalformedLine(pages[i][j])
C7_FieldParseError ==
    (Done /\ "get_data" \in visited /\ HasMalformedLine(messages))
        => (outcome = "Err" /\ err = "ParseFloatError" /\ data = <<>>)

\* C8: when read_desc_block returns, the symbology block has been decoded
\* exactly if the symbology offset is not 0, all its bytes (16 of fixed
\* fields and layer_num_bytes / 2 words) are consumed, and no byte of a
\* graphic block is.
C8_SymbologyInline ==
    (pc \in {"read_tabular", "get_data"} /\ WholeStream)
        => /\ ("read_symbology" \in visited) <=> (src.offset_symbology # 0)
           /\ "read_symbology" \in visited
                 => pos = SymOffset + Sum(SymHead) + Sum(SymTail)
                          + 2 * (src.layer_num_bytes \div 2)
           /\ pos <= GraphicOffset(src)

\* C9: read_tabular returns the pages of the tabular block in the order of
\* the stream, as many as the page count says, each with its lines in order
\* and each line of the bytes its length says; an empty line does not end a
\* page.
TabularReturned ==
    "read_tabular" \in visited /\ (pc = "get_data" \/ "get_data" \in visited)
C9_TabularPages ==
    ("read_tabular" \in visited /\ tabStart = TabOffset(src) /\ WholeStream
        /\ src.offset_tabular # 0 /\ src.tab_id = 3)
        => (TabularReturned /\ messages = src.pages /\ pos = Len(stream))

\* C9 witness: read_tabular has returned two pages or more, one of them
\* with an empty line that is not its last.
C9_Witness ==
    /\ TabularReturned
    /\ tabStart = TabOffset(src)
    /\ Len(messages) >= 2
    /\ \E i \in 1..Len(messages) : \E j \in 1..(Len(messages[i]) - 1) :
          messages[i][j] = <<>>

\* C10: a Some of mean_wind(top) is the polar form of (mean u, mean v) over
\* the components interpolated at ceil(lowest altitude), the next whole
\* kilometres and so on below top.
KmBelow(lo, top) == [i \in 1..Max(FCeil(top)[1] - lo, 0) |-> Whole(lo + i - 1)]
MeanComp(hs) ==
    [u |-> FDiv(FSum([i \in 1..Len(hs) |-> hs[i].comp.u]), Whole(Len(hs))),
     v |-> FDiv(FSum([i \in 1..Len(hs) |-> hs[i].comp.v]), Whole(Len(hs)))]
C10_MeanWind ==
    (call.fn = "mean_wind" /\ call.st = "Some" /\ ~IsNaN(data[1].altitude))
        => call.result[1] =
              VectorFromComp(MeanComp(SamplesAt(data,
                  KmBelow(FCeil(data[1].altitude)[1], call.args[1]))))

\* C11: create_placefile copies a cache file into the placefile only if the
\* timestamp of its name is no more than 20 minutes before the clock it is
\* compared with: a file older than that is left out.
C11_RecentFilesOnly ==
    \A i \in 1..Len(client.seen) :
        client.seen[i].copied
            => client.seen[i].now - client.seen[i].stamp <= WindowMinutes * 60

====
